---- MODULE Spec2Model ----
(***************************************************************************)
(* Radix route matcher: the Rust wrapper (src/src/radix_tree.rs), its raw  *)
(* FFI layer (src/src/ffi.rs) and the compressed radix trie it drives.     *)
(* The trie itself (rax.c: raxInsert, raxRemove, raxFind, raxSeek, raxUp)  *)
(* is only declared in ffi.rs; it is modelled from spec.md sections 3-4.   *)
(***************************************************************************)
EXTENDS Integers, Sequences, FiniteSets, TLC

\* ---------------------------------------------------------------- bounds
MaxLen == 2          \* longest key / query path, in bytes
MaxKeys == 2         \* most keys stored at once

Alphabet == {1, 2}           \* the bytes keys are made of
Values == {0, 1, 2}          \* the i32 indices handed to insert

Keys == UNION {[1..n -> Alphabet] : n \in 0..MaxLen}
Paths == Keys

\* ------------------------------------------------------- byte strings
Drop(s, n) == SubSeq(s, n + 1, Len(s))
Take(s, n) == SubSeq(s, 1, n)

IsPrefix(k, p) == Len(k) <= Len(p) /\ Take(p, Len(k)) = k

\* length of the longest common prefix of a and b
RECURSIVE CommonLen(_, _)
CommonLen(a, b) ==
    IF a = <<>> \/ b = <<>> \/ a[1] # b[1] THEN 0
    ELSE 1 + CommonLen(Tail(a), Tail(b))

\* libc::memcmp(a, b, n) = 0 on the first n bytes
MemEq(a, b, n) == Take(a, n) = Take(b, n)

\* ---------------------------------------------------------- pointers
\* A *mut c_void is represented by its isize value; NULL is 0.
NULL == 0
\* `pub static mut raxNotFound`: the address of a static object of rax.c.
raxNotFound == 1073741824

\* idx as isize as *mut c_void: sign extension keeps the numeric value
IdxToPtr(idx) == idx
\* res as isize as i32 / data as isize as c_int: truncation to 32 bits,
\* which is the value itself for every pointer made by IdxToPtr
PtrToIdx(p) == p

\* Option<i32> and Vec<i32> are sequences: None = <<>>, Some(v) = <<v>>
None == <<>>
Some(v) == <<v>>

\* ------------------------------------------------------------- nodes
\* A node owns its children, kept in ascending order of first label byte.
MkNode(label, iskey, data, children) ==
    [label |-> label, iskey |-> iskey, data |-> data, children |-> children]

EmptyRoot == MkNode(<<>>, FALSE, NULL, <<>>)

\* index of the child of n whose label starts with byte b, 0 if none
ChildIndex(n, b) ==
    LET S == {i \in 1..Len(n.children) :
                 n.children[i].label # <<>> /\ n.children[i].label[1] = b}
    IN IF S = {} THEN 0 ELSE CHOOSE i \in S : \A j \in S : i <= j

\* number of children whose first byte is below b (the insertion point)
CountBelow(n, b) ==
    Cardinality({i \in 1..Len(n.children) :
                    n.children[i].label # <<>> /\ n.children[i].label[1] < b})

InsertChild(n, c) ==
    LET p == CountBelow(n, c.label[1])
    IN [n EXCEPT !.children =
           Take(n.children, p) \o <<c>> \o Drop(n.children, p)]

RemoveChild(n, i) ==
    [n EXCEPT !.children = Take(n.children, i - 1) \o Drop(n.children, i)]

\* ------------------------------------------------------------ raxFind
RECURSIVE FindIn(_, _)
FindIn(n, s) ==
    IF s = <<>> THEN (IF n.iskey THEN n.data ELSE raxNotFound)
    ELSE LET i == ChildIndex(n, s[1]) IN
         IF i = 0 THEN raxNotFound
         ELSE LET c == n.children[i] IN
              IF IsPrefix(c.label, s) THEN FindIn(c, Drop(s, Len(c.label)))
              ELSE raxNotFound

raxFind(rax, s) == FindIn(rax, s)

\* ---------------------------------------------------------- raxInsert
\* the node that replaces child c when the rest r of the key meets c's
\* label after j common bytes, 0 < j < Len(c.label). A key that ends inside
\* the label (j = Len(r)) has no remainder: the node that takes the matched
\* prefix is itself the key node. (First, the split that gives the remainder
\* of the key a node of its own even when the remainder is empty.)
SplitNodeTwoChildren(c, r, j, data) ==
    LET tail == [c EXCEPT !.label = Drop(c.label, j)]
        fresh == MkNode(Drop(r, j), TRUE, data, <<>>)
    IN MkNode(Take(c.label, j), FALSE, NULL,
              IF j = Len(r) \/ r[j + 1] < c.label[j + 1]
              THEN <<fresh, tail>> ELSE <<tail, fresh>>)

SplitNode(c, r, j, data) ==
    LET tail == [c EXCEPT !.label = Drop(c.label, j)]
        head == MkNode(Take(c.label, j), FALSE, NULL, <<tail>>)
    IN IF j = Len(r)
       THEN [head EXCEPT !.iskey = TRUE, !.data = data]
       ELSE InsertChild(head, MkNode(Drop(r, j), TRUE, data, <<>>))

RECURSIVE InsertIn(_, _, _)
InsertIn(n, s, data) ==
    IF s = <<>> THEN [n EXCEPT !.iskey = TRUE, !.data = data]
    ELSE LET i == ChildIndex(n, s[1]) IN
         IF i = 0 THEN InsertChild(n, MkNode(s, TRUE, data, <<>>))
         ELSE LET c == n.children[i]
                  j == CommonLen(c.label, s)
              IN IF j = Len(c.label)
                 THEN [n EXCEPT !.children[i] = InsertIn(c, Drop(s, j), data)]
                 ELSE [n EXCEPT !.children[i] = SplitNode(c, s, j, data)]

\* nodes the insert has to allocate: one per new node of the result
RECURSIVE NodeCount(_)
RECURSIVE NodeCountSeq(_)
NodeCountSeq(cs) ==
    IF cs = <<>> THEN 0 ELSE NodeCount(Head(cs)) + NodeCountSeq(Tail(cs))
NodeCount(n) == 1 + NodeCountSeq(n.children)

AllocsOfInsert(rax, s, data) == NodeCount(InsertIn(rax, s, data)) - NodeCount(rax)

RAX_OK == 0
RAX_ENOMEM == -12

\* failAt = 0: every allocation succeeds; failAt = a: the a-th one fails
raxInsert(rax, s, data, failAt) ==
    IF failAt > 0 /\ failAt <= AllocsOfInsert(rax, s, data)
    THEN [rax |-> rax, rc |-> RAX_ENOMEM]
    ELSE [rax |-> InsertIn(rax, s, data), rc |-> RAX_OK]

\* ---------------------------------------------------------- raxRemove
\* merge a non-key node that is left with a single child into that child
MergeChild(n) ==
    LET c == n.children[1]
    IN MkNode(n.label \o c.label, c.iskey, c.data, c.children)

\* Compress that frees an emptied leaf but never merges a single-child node
CompressNoMerge(n, i) ==
    LET c == n.children[i] IN
    IF ~c.iskey /\ Len(c.children) = 0 THEN RemoveChild(n, i) ELSE n

\* restore path compression at child i of n after a removal below it
Compress(n, i) ==
    LET c == n.children[i] IN
    IF c.iskey THEN n
    ELSE IF Len(c.children) = 0 THEN RemoveChild(n, i)
    ELSE IF Len(c.children) = 1 THEN [n EXCEPT !.children[i] = MergeChild(c)]
    ELSE n

RECURSIVE RemoveIn(_, _)
RemoveIn(n, s) ==
    IF s = <<>> THEN [n EXCEPT !.iskey = FALSE, !.data = NULL]
    ELSE LET i == ChildIndex(n, s[1])
             c == n.children[i]
         IN Compress([n EXCEPT !.children[i] = RemoveIn(c, Drop(s, Len(c.label)))], i)

RAX_ENOENT == -2

raxRemove(rax, s) ==
    IF raxFind(rax, s) = raxNotFound
    THEN [rax |-> rax, rc |-> RAX_ENOENT]
    ELSE [rax |-> RemoveIn(rax, s), rc |-> RAX_OK]

\* ------------------------------------------------------------ iterator
\* A node reference is the sequence of child indices leading to it from the
\* root; a frame pairs a reference with the label bytes it contributes.
RECURSIVE NodeAt(_, _)
NodeAt(n, ref) ==
    IF ref = <<>> THEN n ELSE NodeAt(n.children[Head(ref)], Tail(ref))

Frame(rax, ref) == [node |-> ref, off |-> Len(NodeAt(rax, ref).label)]

\* frames from the root down to the node at ref
FramesTo(rax, ref) == [m \in 1..(Len(ref) + 1) |-> Frame(rax, Take(ref, m - 1))]

\* the key spelled by the labels from the root down to ref
RECURSIVE KeyAt(_, _)
KeyAt(n, ref) ==
    IF ref = <<>> THEN n.label
    ELSE n.label \o KeyAt(n.children[Head(ref)], Tail(ref))

\* RaxIterator: flags, key (key_len is its length), data, frame stack
MkIter(flags, key, data, stack) ==
    [flags |-> flags, key |-> key, data |-> data, stack |-> stack]

raxStart == MkIter({"EOF"}, <<>>, NULL, <<>>)

NoPos == [found |-> FALSE, path |-> <<>>]
Pos(path) == [found |-> TRUE, path |-> path]
Under(i, r) == IF r.found THEN Pos(<<i>> \o r.path) ELSE NoPos

\* greatest stored key below n (MaxIn) / below its children 1..i (MaxBelow)
RECURSIVE MaxIn(_)
RECURSIVE MaxBelow(_, _)
MaxBelow(n, i) ==
    IF i = 0 THEN NoPos
    ELSE LET r == MaxIn(n.children[i])
         IN IF r.found THEN Under(i, r) ELSE MaxBelow(n, i - 1)
MaxIn(n) ==
    LET r == MaxBelow(n, Len(n.children))
    IN IF r.found THEN r ELSE IF n.iskey THEN Pos(<<>>) ELSE NoPos

\* greatest stored key at or below n that is <= the rest s of the sought key
RECURSIVE SeekLE(_, _)
SeekLE(n, s) ==
    IF s = <<>> THEN (IF n.iskey THEN Pos(<<>>) ELSE NoPos)
    ELSE LET i == ChildIndex(n, s[1])
             viaChild ==
                 IF i = 0 THEN NoPos
                 ELSE LET c == n.children[i]
                          j == CommonLen(c.label, s)
                      IN IF j = Len(c.label)
                         THEN Under(i, SeekLE(c, Drop(s, j)))
                         ELSE IF j < Len(s) /\ c.label[j + 1] < s[j + 1]
                         THEN Under(i, MaxIn(c))
                         ELSE NoPos
             viaLower == MaxBelow(n, CountBelow(n, s[1]))
         IN IF viaChild.found THEN viaChild
            ELSE IF viaLower.found THEN viaLower
            ELSE IF n.iskey THEN Pos(<<>>) ELSE NoPos

\* raxSeek(it, "<=", ele, len)
raxSeek(rax, it, s) ==
    LET r == SeekLE(rax, s) IN
    IF r.found
    THEN [it |-> MkIter({"JUST_SEEKED"}, KeyAt(rax, r.path),
                        NodeAt(rax, r.path).data, FramesTo(rax, r.path)),
          rc |-> 1]
    ELSE [it |-> raxStart, rc |-> 0]

\* pop frames until the top one is a stored key or the stack is empty
RECURSIVE PopToKey(_, _, _)
PopToKey(rax, key, stack) ==
    LET top == stack[Len(stack)]
        rest == Take(stack, Len(stack) - 1)
        k == Take(key, Len(key) - top.off)
    IN IF rest = <<>> THEN [it |-> raxStart, rc |-> 0]
       ELSE LET n == NodeAt(rax, rest[Len(rest)].node)
            IN IF n.iskey
               THEN [it |-> MkIter({}, k, n.data, rest), rc |-> 1]
               ELSE PopToKey(rax, k, rest)

raxUp(rax, it) ==
    IF "EOF" \in it.flags THEN [it |-> it, rc |-> 0]
    ELSE IF "JUST_SEEKED" \in it.flags
    THEN [it |-> [it EXCEPT !.flags = it.flags \ {"JUST_SEEKED"}], rc |-> 1]
    ELSE PopToKey(rax, it.key, it.stack)

\* least stored key at or below n
RECURSIVE MinIn(_)
MinIn(n) ==
    IF n.iskey THEN Pos(<<>>)
    ELSE IF n.children = <<>> THEN NoPos
    ELSE Under(1, MinIn(n.children[1]))

\* ref extended by the position r found below it
Below(ref, r) == IF r.found THEN Pos(ref \o r.path) ELSE NoPos

\* least stored key after the whole subtree at ref: the first key under the
\* next sibling of the nearest node on the way up that has one
RECURSIVE NextAfter(_, _)
NextAfter(rax, ref) ==
    IF ref = <<>> THEN NoPos
    ELSE LET par == Take(ref, Len(ref) - 1)
             i == ref[Len(ref)]
             p == NodeAt(rax, par)
         IN IF i < Len(p.children)
            THEN Below(par \o <<i + 1>>, MinIn(p.children[i + 1]))
            ELSE NextAfter(rax, par)

\* greatest stored key before the node at ref: the last key under the
\* previous sibling, else the parent when it is a key, else further up
RECURSIVE PrevBefore(_, _)
PrevBefore(rax, ref) ==
    IF ref = <<>> THEN NoPos
    ELSE LET par == Take(ref, Len(ref) - 1)
             i == ref[Len(ref)]
             p == NodeAt(rax, par)
         IN IF i > 1
            THEN Below(par \o <<i - 1>>, MaxIn(p.children[i - 1]))
            ELSE IF p.iskey THEN Pos(par)
            ELSE PrevBefore(rax, par)

\* the iterator standing on the key at r, or unpositioned when there is none
MoveTo(rax, r) ==
    IF r.found
    THEN [it |-> MkIter({}, KeyAt(rax, r.path), NodeAt(rax, r.path).data,
                        FramesTo(rax, r.path)),
          rc |-> 1]
    ELSE [it |-> raxStart, rc |-> 0]

\* the node the iterator stands on
Current(it) == it.stack[Len(it.stack)].node

raxNext(rax, it) ==
    IF "EOF" \in it.flags THEN [it |-> it, rc |-> 0]
    ELSE LET ref == Current(it)
             n == NodeAt(rax, ref)
         IN MoveTo(rax, IF n.children # <<>>
                        THEN Below(ref \o <<1>>, MinIn(n.children[1]))
                        ELSE NextAfter(rax, ref))

raxPrev(rax, it) ==
    IF "EOF" \in it.flags THEN [it |-> it, rc |-> 0]
    ELSE MoveTo(rax, PrevBefore(rax, Current(it)))

\* raxStop releases what the iterator holds: the frame stack is cleared
raxStop(it) == MkIter(it.flags, it.key, it.data, <<>>)

\* ------------------------------------------------------------- ffi.rs
\* A pointer argument is either null or points at something. Behind a tree
\* handle is the rax, behind a buffer its len bytes, behind an iterator handle
\* the RaxIterator.
Ptr(x) == [null |-> FALSE, val |-> x]
NullPtr == [null |-> TRUE, val |-> <<>>]

\* the number of times the rax behind the handle has been handed to raxFree
tree_destroy_raw(tree, frees) ==
    IF tree.null THEN [frees |-> frees, rc |-> 0]
    ELSE [frees |-> frees + 1, rc |-> 0]

\* tree_insert_raw without the test of buf
tree_insert_raw_nocheck(tree, buf, idx, failAt) ==
    IF tree.null THEN [rax |-> tree.val, rc |-> -1]
    ELSE raxInsert(tree.val, buf.val, IdxToPtr(idx), failAt)

tree_insert_raw(tree, buf, idx, failAt) ==
    IF tree.null THEN [rax |-> tree.val, rc |-> -1]
    ELSE IF buf.null THEN [rax |-> tree.val, rc |-> -2]
    ELSE raxInsert(tree.val, buf.val, IdxToPtr(idx), failAt)

tree_find_raw(tree, buf) ==
    IF tree.null \/ buf.null THEN NULL
    ELSE LET res == raxFind(tree.val, buf.val)
         IN IF res = raxNotFound THEN NULL ELSE res

\* tree_remove_raw handing raxRemove a length that is one byte short
tree_remove_raw_short(tree, buf) ==
    IF tree.null THEN [rax |-> tree.val, rc |-> -1]
    ELSE IF buf.null THEN [rax |-> tree.val, rc |-> -2]
    ELSE raxRemove(tree.val,
                   IF buf.val = <<>> THEN <<>> ELSE Take(buf.val, Len(buf.val) - 1))

tree_remove_raw(tree, buf) ==
    IF tree.null THEN [rax |-> tree.val, rc |-> -1]
    ELSE IF buf.null THEN [rax |-> tree.val, rc |-> -2]
    ELSE raxRemove(tree.val, buf.val)

\* The tree argument is not used: raxSeek walks rt, the rax the iterator was
\* bound to by raxStart. The result of raxSeek is dropped and the iterator
\* pointer returned. (First, tree_search_raw seeking one byte short of len.)
tree_search_raw_short(tree, rt, iter, buf) ==
    IF iter.null \/ buf.null THEN [it |-> iter.val, isnull |-> TRUE]
    ELSE [it |-> raxSeek(rt, iter.val,
                         IF buf.val = <<>> THEN <<>>
                         ELSE Take(buf.val, Len(buf.val) - 1)).it,
          isnull |-> FALSE]

tree_search_raw(tree, rt, iter, buf) ==
    IF iter.null \/ buf.null THEN [it |-> iter.val, isnull |-> TRUE]
    ELSE [it |-> raxSeek(rt, iter.val, buf.val).it, isnull |-> FALSE]

\* the loop of tree_up_raw, over rt, the rax the iterator is bound to
RECURSIVE UpLoop(_, _, _)
UpLoop(rt, it, buf) ==
    LET r == raxUp(rt, it) IN
    IF r.rc = 0 THEN [it |-> r.it, rc |-> -1]
    ELSE IF Len(r.it.key) > Len(buf) THEN UpLoop(rt, r.it, buf)
    ELSE IF ~MemEq(buf, r.it.key, Len(r.it.key)) THEN UpLoop(rt, r.it, buf)
    ELSE [it |-> r.it, rc |-> PtrToIdx(r.it.data)]

tree_up_raw(rt, iter, buf) ==
    IF iter.null \/ buf.null THEN [it |-> iter.val, rc |-> -1]
    ELSE UpLoop(rt, iter.val, buf.val)

tree_stop_raw(iter) ==
    IF iter.null THEN [it |-> iter.val, rc |-> 0]
    ELSE [it |-> raxStop(iter.val), rc |-> 0]

\* ------------------------------------------------------ radix_tree.rs
\* Result<(), i32> is a sequence: Ok(()) = <<>>, Err(rc) = <<rc>>
Ok == <<>>
Err(rc) == <<rc>>

\* insert testing the status code with the wrong sign
insert_wrong_sign(rax, path, idx, failAt) ==
    LET r == tree_insert_raw(Ptr(rax), Ptr(path), idx, failAt)
    IN [rax |-> r.rax, res |-> IF r.rc > 0 THEN Err(r.rc) ELSE Ok]

insert(rax, path, idx, failAt) ==
    LET r == tree_insert_raw(Ptr(rax), Ptr(path), idx, failAt)
    IN [rax |-> r.rax, res |-> IF r.rc < 0 THEN Err(r.rc) ELSE Ok]

find_exact(rax, path) ==
    LET res == tree_find_raw(Ptr(rax), Ptr(path))
    IN IF res = NULL THEN None ELSE Some(PtrToIdx(res))

\* remove testing the status code with the wrong sign
remove_wrong_sign(rax, path) ==
    LET r == tree_remove_raw(Ptr(rax), Ptr(path))
    IN [rax |-> r.rax, res |-> IF r.rc > 0 THEN Err(r.rc) ELSE Ok]

remove(rax, path) ==
    LET r == tree_remove_raw(Ptr(rax), Ptr(path))
    IN [rax |-> r.rax, res |-> IF r.rc < 0 THEN Err(r.rc) ELSE Ok]

\* rax is self.tree; rt is the rax behind iter.iter
search(rax, rt, it, path) ==
    LET r == tree_search_raw(Ptr(rax), rt, Ptr(it), Ptr(path))
    IN [it |-> r.it, res |-> ~r.isnull]

\* self is not used
next_prefix(rt, it, path) ==
    LET r == tree_up_raw(rt, Ptr(it), Ptr(path))
    IN [it |-> r.it, res |-> IF r.rc <= 0 THEN None ELSE Some(r.rc)]

\* longest_prefix walking up from wherever the iterator stands when it
\* stands on a key
longest_prefix_noseek(rax, rt, it, path) ==
    LET s == IF "EOF" \in it.flags
             THEN tree_search_raw(Ptr(rax), rt, Ptr(it), Ptr(path))
             ELSE [it |-> it, isnull |-> FALSE]
    IN IF s.isnull THEN [it |-> s.it, res |-> None]
       ELSE next_prefix(rt, s.it, path)

longest_prefix(rax, rt, it, path) ==
    LET s == tree_search_raw(Ptr(rax), rt, Ptr(it), Ptr(path))
    IN IF s.isnull THEN [it |-> s.it, res |-> None]
       ELSE next_prefix(rt, s.it, path)

\* the `while let Some(idx) = self.next_prefix(..)` loop
RECURSIVE CollectPrefixes(_, _, _, _)
CollectPrefixes(rt, it, path, results) ==
    LET r == next_prefix(rt, it, path)
    IN IF r.res = None THEN [it |-> r.it, res |-> results]
       ELSE CollectPrefixes(rt, r.it, path, results \o r.res)

find_all_prefixes(rax, rt, it, path) ==
    LET s == search(rax, rt, it, path)
    IN IF ~s.res THEN [it |-> s.it, res |-> <<>>]
       ELSE CollectPrefixes(rt, s.it, path, <<>>)

\* ------------------------------------------------------------ c_api.rs
radix_tree_destroy(t, frees) == tree_destroy_raw(t, frees)

radix_tree_insert(t, buf, idx) == tree_insert_raw(t, buf, idx, 0)

radix_tree_find(t, buf) == tree_find_raw(t, buf)

radix_tree_remove(t, buf) == tree_remove_raw(t, buf)

radix_tree_search(t, rt, iter, buf) == tree_search_raw(t, rt, iter, buf)

\* the loop of radix_tree_prev, over rt, the rax the iterator is bound to
RECURSIVE PrevLoop(_, _, _)
PrevLoop(rt, it, buf) ==
    LET r == raxPrev(rt, it) IN
    IF r.rc = 0 THEN [it |-> r.it, rc |-> -1]
    ELSE IF Len(r.it.key) > Len(buf) THEN PrevLoop(rt, r.it, buf)
    ELSE IF ~MemEq(buf, r.it.key, Len(r.it.key)) THEN PrevLoop(rt, r.it, buf)
    ELSE [it |-> r.it, rc |-> PtrToIdx(r.it.data)]

radix_tree_prev(rt, iter, buf) ==
    IF iter.null \/ buf.null THEN [it |-> iter.val, rc |-> -1]
    ELSE PrevLoop(rt, iter.val, buf.val)

\* no loop: one raxNext, and -1 as soon as the key reached does not match
radix_tree_next(rt, iter, buf) ==
    IF iter.null \/ buf.null THEN [it |-> iter.val, rc |-> -1]
    ELSE LET r == raxNext(rt, iter.val) IN
         IF r.rc = 0 THEN [it |-> r.it, rc |-> -1]
         ELSE IF Len(r.it.key) > Len(buf.val) THEN [it |-> r.it, rc |-> -1]
         ELSE IF ~MemEq(buf.val, r.it.key, Len(r.it.key))
         THEN [it |-> r.it, rc |-> -1]
         ELSE [it |-> r.it, rc |-> PtrToIdx(r.it.data)]

radix_tree_up(rt, iter, buf) == tree_up_raw(rt, iter, buf)

\* ------------------------------------------------------- state machine
VARIABLES
    tree,     \* the rax owned by the RadixTree
    it,       \* the RaxIterator owned by the RadixIterator
    stale,    \* the iterator's frames point into nodes a mutation has replaced
    stored,   \* history: key -> index of the calls that succeeded so far
    last,     \* history: the last call, its arguments and its result
    it2,      \* the RaxIterator of a second RadixIterator
    tree2,    \* the rax of a second RadixTree
    rt,       \* RaxIterator.rt of it: "A" for tree, "B" for tree2
    life,     \* who owns tree, whether the handle is null, raxFree calls on it
    dropped   \* the RadixIterator of it has been dropped

vars == <<tree, it, stale, stored, last, it2, tree2, rt, life, dropped>>

\* what the calls on one tree through one iterator leave alone
others == <<it2, tree2, rt, life, dropped>>

\* a RadixTree: only Drop can reach the handle, and Drop has not run
RustOwned == [owner |-> "rust", null |-> FALSE, frees |-> 0]

\* the rax an iterator bound to t walks
TreeOf(t) == IF t = "A" THEN tree ELSE tree2

\* every result is recorded as a sequence of integers; a bool as <<1>> or <<0>>
Flag(b) == IF b THEN <<1>> ELSE <<0>>

Call(op, key, res) == [op |-> op, key |-> key, res |-> res]

Without(f, k) == [x \in DOMAIN f \ {k} |-> f[x]]
With(f, k, v) == [x \in DOMAIN f \cup {k} |-> IF x = k THEN v ELSE f[x]]

Positioned == "EOF" \notin it.flags

\* What is left of an iterator whose frames point at freed or moved nodes:
\* nothing of it can be relied on any more.
Dangling == MkIter({}, <<>>, NULL, <<>>)

\* a mutation that adds, frees, splits or merges nodes (moved = TRUE) leaves
\* the frames of a positioned iterator dangling
Invalidate(moved) ==
    IF stale \/ (moved /\ Positioned)
    THEN stale' = TRUE /\ it' = Dangling
    ELSE UNCHANGED <<it, stale>>

\* RadixTree::new, then create_iter
Init ==
    /\ tree = EmptyRoot
    /\ it = raxStart
    /\ stale = FALSE
    /\ stored = <<>>
    /\ last = Call("new", <<>>, Ok)
    /\ it2 = raxStart
    /\ tree2 = EmptyRoot
    /\ rt = "A"
    /\ life = RustOwned
    /\ dropped = FALSE

\* tree.insert(k, v), every allocation succeeding
Insert(k, v) ==
    /\ k \in DOMAIN stored \/ Cardinality(DOMAIN stored) < MaxKeys
    /\ LET r == insert(tree, k, v, 0) IN
       /\ tree' = r.rax
       /\ last' = Call("insert", k, r.res)
    /\ stored' = With(stored, k, v)
    /\ Invalidate(k \notin DOMAIN stored)
    /\ UNCHANGED others

\* tree.insert(k, v) whose a-th allocation fails
InsertOOM(k, v, a) ==
    /\ k \in DOMAIN stored \/ Cardinality(DOMAIN stored) < MaxKeys
    /\ a <= AllocsOfInsert(tree, k, IdxToPtr(v))
    /\ LET r == insert(tree, k, v, a) IN
       /\ tree' = r.rax
       /\ last' = Call("insert_oom", k, r.res)
    /\ UNCHANGED <<it, stale, stored>>
    /\ UNCHANGED others

\* tree.remove(k)
Remove(k) ==
    /\ LET r == remove(tree, k) IN
       /\ tree' = r.rax
       /\ last' = Call("remove", k, r.res)
    /\ stored' = Without(stored, k)
    /\ Invalidate(k \in DOMAIN stored)
    /\ UNCHANGED others

\* tree.find_exact(k)
FindExact(k) ==
    /\ last' = Call("find_exact", k, find_exact(tree, k))
    /\ UNCHANGED <<tree, it, stale, stored>>
    /\ UNCHANGED others

\* tree.search(&iter, p)
Search(p) ==
    /\ LET r == search(tree, TreeOf(rt), it, p) IN
       /\ it' = r.it
       /\ last' = Call("search", p, Flag(r.res))
    /\ stale' = FALSE
    /\ UNCHANGED <<tree, stored>>
    /\ UNCHANGED others

\* tree.next_prefix(&iter, p) on frames that are still in the tree
NextPrefix(p) ==
    /\ ~stale
    /\ LET r == next_prefix(TreeOf(rt), it, p) IN
       /\ it' = r.it
       /\ last' = Call("next_prefix", p, r.res)
    /\ UNCHANGED <<tree, stale, stored>>
    /\ UNCHANGED others

\* tree.next_prefix(&iter, p) on frames a mutation has freed or moved: the
\* reads are of released memory, so any result may come back
NextPrefixStale(p) ==
    /\ stale
    /\ \E res \in {None} \cup {Some(v) : v \in {x \in Values : x > 0}} :
           last' = Call("next_prefix", p, res)
    /\ it' = raxStart
    /\ stale' = FALSE
    /\ UNCHANGED <<tree, stored>>
    /\ UNCHANGED others

\* tree.longest_prefix(&iter, p)
LongestPrefix(p) ==
    /\ LET r == longest_prefix(tree, TreeOf(rt), it, p) IN
       /\ it' = r.it
       /\ last' = Call("longest_prefix", p, r.res)
    /\ stale' = FALSE
    /\ UNCHANGED <<tree, stored>>
    /\ UNCHANGED others

\* tree.find_all_prefixes(&iter, p)
FindAllPrefixes(p) ==
    /\ LET r == find_all_prefixes(tree, TreeOf(rt), it, p) IN
       /\ it' = r.it
       /\ last' = Call("find_all_prefixes", p, r.res)
    /\ stale' = FALSE
    /\ UNCHANGED <<tree, stored>>
    /\ UNCHANGED others

AllocPoints == {1, 2}

Next ==
    \/ \E k \in Keys, v \in Values : Insert(k, v)
    \/ \E k \in Keys, v \in Values, a \in AllocPoints : InsertOOM(k, v, a)
    \/ \E k \in Keys : Remove(k)
    \/ \E k \in Keys : FindExact(k)
    \/ \E p \in Paths : Search(p)
    \/ \E p \in Paths : NextPrefix(p)
    \/ \E p \in Paths : NextPrefixStale(p)
    \/ \E p \in Paths : LongestPrefix(p)
    \/ \E p \in Paths : FindAllPrefixes(p)

Spec == Init /\ [][Next]_vars

\* ------------------------------------- the C API on a tree and an iterator
\* a tree made by radix_tree_new: the caller holds the pointer
COwned == [owner |-> "c", null |-> FALSE, frees |-> 0]

\* the arguments a C caller passes: null, or the pointer it was given
Handle(isnull) == IF isnull THEN NullPtr ELSE Ptr(tree)
IterHandle(isnull) == IF isnull THEN NullPtr ELSE Ptr(it)
Buffer(isnull, bytes) == IF isnull THEN NullPtr ELSE Ptr(bytes)

\* raxFree has not run on the tree
Live == life.frees = 0

MaxFrees == 2
CValues == {1, 2}

\* radix_tree_new and radix_tree_new_it, or RadixTree::new and create_iter
InitC ==
    /\ tree = EmptyRoot
    /\ it = raxStart
    /\ stale = FALSE
    /\ stored = <<>>
    /\ last = Call("new", <<>>, Ok)
    /\ it2 = raxStart
    /\ tree2 = EmptyRoot
    /\ rt = "A"
    /\ life \in {RustOwned, COwned}
    /\ dropped = FALSE

\* radix_tree_insert(t, buf, len, idx)
CInsert(tn, bn, k, v) ==
    /\ life.owner = "c" /\ Live
    /\ bn => k = <<>>
    /\ tn \/ bn \/ k \in DOMAIN stored \/ Cardinality(DOMAIN stored) < MaxKeys
    /\ LET r == radix_tree_insert(Handle(tn), Buffer(bn, k), v) IN
       /\ tree' = IF tn THEN tree ELSE r.rax
       /\ last' = Call(IF tn THEN "c_insert_null_tree"
                       ELSE IF bn THEN "c_insert_null_buf" ELSE "c_insert",
                       k, <<r.rc>>)
       /\ stored' = IF r.rc = 0 THEN With(stored, k, v) ELSE stored
       /\ Invalidate(r.rc = 0 /\ k \notin DOMAIN stored)
    /\ UNCHANGED others

\* radix_tree_remove(t, buf, len)
CRemove(tn, bn, k) ==
    /\ life.owner = "c" /\ Live
    /\ bn => k = <<>>
    /\ LET r == radix_tree_remove(Handle(tn), Buffer(bn, k)) IN
       /\ tree' = IF tn THEN tree ELSE r.rax
       /\ last' = Call(IF tn THEN "c_remove_null_tree"
                       ELSE IF bn THEN "c_remove_null_buf" ELSE "c_remove",
                       k, <<r.rc>>)
       /\ stored' = IF r.rc = 0 THEN Without(stored, k) ELSE stored
       /\ Invalidate(r.rc = 0)
    /\ UNCHANGED others

\* radix_tree_find(t, buf, len)
CFind(tn, bn, k) ==
    /\ life.owner = "c" /\ Live
    /\ bn => k = <<>>
    /\ last' = Call(IF tn THEN "c_find_null_tree"
                    ELSE IF bn THEN "c_find_null_buf" ELSE "c_find",
                    k, <<radix_tree_find(Handle(tn), Buffer(bn, k))>>)
    /\ UNCHANGED <<tree, it, stale, stored>>
    /\ UNCHANGED others

\* radix_tree_search(tree, it, buf, len)
CSearch(itn, bn, p) ==
    /\ life.owner = "c" /\ Live
    /\ bn => p = <<>>
    /\ LET r == radix_tree_search(Ptr(tree), TreeOf(rt), IterHandle(itn),
                                  Buffer(bn, p)) IN
       /\ it' = IF itn THEN it ELSE r.it
       /\ last' = Call(IF itn THEN "c_search_null_it"
                       ELSE IF bn THEN "c_search_null_buf" ELSE "c_search",
                       p, Flag(~r.isnull))
       /\ stale' = IF r.isnull THEN stale ELSE FALSE
    /\ UNCHANGED <<tree, stored>>
    /\ UNCHANGED others

\* radix_tree_up(it, buf, len); with an iterator and a buffer it reads the
\* frames, which have to be in the tree still
CUp(itn, bn, p) ==
    /\ life.owner = "c" /\ Live
    /\ bn => p = <<>>
    /\ itn \/ bn \/ ~stale
    /\ LET r == radix_tree_up(TreeOf(rt), IterHandle(itn), Buffer(bn, p)) IN
       /\ it' = IF itn THEN it ELSE r.it
       /\ last' = Call(IF itn THEN "c_up_null_it"
                       ELSE IF bn THEN "c_up_null_buf" ELSE "c_up",
                       p, <<r.rc>>)
    /\ UNCHANGED <<tree, stale, stored>>
    /\ UNCHANGED others

\* radix_tree_up on frames a mutation has freed or moved: any result
CUpStale(p) ==
    /\ life.owner = "c" /\ Live
    /\ stale
    /\ \E rc \in {-1} \cup CValues : last' = Call("c_up", p, <<rc>>)
    /\ it' = raxStart
    /\ stale' = FALSE
    /\ UNCHANGED <<tree, stored>>
    /\ UNCHANGED others

\* radix_tree_destroy(t): nothing keeps the caller from passing t again
CDestroy(tn) ==
    /\ life.owner = "c"
    /\ life.frees < MaxFrees
    /\ LET r == radix_tree_destroy(Handle(tn), life.frees) IN
       /\ life' = [life EXCEPT !.frees = r.frees]
       /\ last' = Call(IF tn THEN "c_destroy_null" ELSE "c_destroy",
                       <<>>, <<r.rc>>)
    /\ UNCHANGED <<tree, it, stale, stored, it2, tree2, rt, dropped>>

\* Drop for RadixTree: tree_destroy_raw(self.tree), then self.tree = null
DropTree ==
    /\ life.owner = "rust"
    /\ LET r == tree_destroy_raw(IF life.null THEN NullPtr ELSE Ptr(tree),
                                 life.frees) IN
       /\ life' = [life EXCEPT !.frees = r.frees, !.null = TRUE]
       /\ last' = Call("drop", <<>>, <<r.rc>>)
    /\ UNCHANGED <<tree, it, stale, stored, it2, tree2, rt, dropped>>

Nulls == BOOLEAN

NextC ==
    \/ \E tn, bn \in Nulls, k \in Keys, v \in CValues : CInsert(tn, bn, k, v)
    \/ \E tn, bn \in Nulls, k \in Keys : CRemove(tn, bn, k)
    \/ \E tn, bn \in Nulls, k \in Keys : CFind(tn, bn, k)
    \/ \E itn, bn \in Nulls, p \in Paths : CSearch(itn, bn, p)
    \/ \E itn, bn \in Nulls, p \in Paths : CUp(itn, bn, p)
    \/ \E p \in Paths : CUpStale(p)
    \/ \E tn \in Nulls : CDestroy(tn)
    \/ DropTree

SpecC == InitC /\ [][NextC]_vars

\* --------------------------- the C iteration calls on a tree that is built
MaxIterKeys == 3

\* the index stored under key k in the trees that are built: 1 + k read as
\* a number in base 3
RECURSIVE IndexOf(_)
IndexOf(k) ==
    IF k = <<>> THEN 1
    ELSE 3 * (IndexOf(Take(k, Len(k) - 1)) - 1) + k[Len(k)] + 1

IndexMap(ks) == [k \in ks |-> IndexOf(k)]

\* the rax after radix_tree_insert of every key of m, in some order
RECURSIVE Build(_, _)
Build(rax, m) ==
    IF DOMAIN m = {} THEN rax
    ELSE LET k == CHOOSE k \in DOMAIN m : TRUE
         IN Build(radix_tree_insert(Ptr(rax), Ptr(k), m[k]).rax, Without(m, k))

KeySets(n) == {ks \in SUBSET Keys : Cardinality(ks) <= n}

\* radix_tree_new, radix_tree_insert of up to MaxIterKeys keys, then
\* radix_tree_new_it
InitIter ==
    /\ stored \in {IndexMap(ks) : ks \in KeySets(MaxIterKeys)}
    /\ tree = Build(EmptyRoot, stored)
    /\ it = raxStart
    /\ stale = FALSE
    /\ last = Call("new", <<>>, Ok)
    /\ it2 = raxStart
    /\ tree2 = EmptyRoot
    /\ rt = "A"
    /\ life = COwned
    /\ dropped = FALSE

\* radix_tree_next(it, buf, len)
CNext(p) ==
    /\ LET r == radix_tree_next(TreeOf(rt), Ptr(it), Ptr(p)) IN
       /\ it' = r.it
       /\ last' = Call("c_next", p, <<r.rc>>)
    /\ UNCHANGED <<tree, stale, stored>>
    /\ UNCHANGED others

\* radix_tree_prev(it, buf, len)
CPrev(p) ==
    /\ LET r == radix_tree_prev(TreeOf(rt), Ptr(it), Ptr(p)) IN
       /\ it' = r.it
       /\ last' = Call("c_prev", p, <<r.rc>>)
    /\ UNCHANGED <<tree, stale, stored>>
    /\ UNCHANGED others

NextIter ==
    \/ \E p \in Paths : CSearch(FALSE, FALSE, p)
    \/ \E p \in Paths : CNext(p)
    \/ \E p \in Paths : CPrev(p)
    \/ \E p \in Paths : CUp(FALSE, FALSE, p)

SpecIter == InitIter /\ [][NextIter]_vars

\* ------------------------------- two iterators over a tree that is built
\* RadixTree::new, insert of up to MaxKeys keys, create_iter twice
InitPair ==
    /\ stored \in {IndexMap(ks) : ks \in KeySets(MaxKeys)}
    /\ tree = Build(EmptyRoot, stored)
    /\ it = raxStart
    /\ stale = FALSE
    /\ last = Call("new", <<>>, Ok)
    /\ it2 = raxStart
    /\ tree2 = EmptyRoot
    /\ rt = "A"
    /\ life = RustOwned
    /\ dropped = FALSE

\* the RaxIterator behind the i-th RadixIterator
IterAt(i) == IF i = 1 THEN it ELSE it2

\* Every RadixIterator has a RaxIterator of its own, and a call writes the
\* one behind the handle it is given. (First, the calls writing one
\* RaxIterator that all handles share.)
SetIterShared(i, new) == it' = new /\ it2' = new

SetIter(i, new) ==
    IF i = 1 THEN it' = new /\ it2' = it2 ELSE it2' = new /\ it' = it

\* tree.search(&iter_i, p)
SearchOn(i, p) ==
    /\ LET r == search(tree, tree, IterAt(i), p) IN
       /\ SetIter(i, r.it)
       /\ last' = Call(IF i = 1 THEN "search" ELSE "search_2", p, Flag(r.res))
    /\ UNCHANGED <<tree, stale, stored, tree2, rt, life, dropped>>

\* tree.next_prefix(&iter_i, p)
NextPrefixOn(i, p) ==
    /\ LET r == next_prefix(tree, IterAt(i), p) IN
       /\ SetIter(i, r.it)
       /\ last' = Call(IF i = 1 THEN "next_prefix" ELSE "next_prefix_2",
                       p, r.res)
    /\ UNCHANGED <<tree, stale, stored, tree2, rt, life, dropped>>

Iterators == {1, 2}

NextPair ==
    \/ \E i \in Iterators, p \in Paths : SearchOn(i, p)
    \/ \E i \in Iterators, p \in Paths : NextPrefixOn(i, p)

SpecPair == InitPair /\ [][NextPair]_vars

\* -------------------- a tree called with an iterator of any of two trees
MaxOtherKeys == 1

\* the indices stored in the second tree: none is stored in the first
OtherIndexMap(ks) == [k \in ks |-> IndexOf(k) + 10]

\* two RadixTree::new, inserts into both, then create_iter on one of them
InitCross ==
    /\ stored \in {IndexMap(ks) : ks \in KeySets(MaxKeys)}
    /\ tree = Build(EmptyRoot, stored)
    /\ tree2 \in {Build(EmptyRoot, OtherIndexMap(ks)) : ks \in KeySets(MaxOtherKeys)}
    /\ rt \in {"A", "B"}
    /\ it = raxStart
    /\ stale = FALSE
    /\ last = Call("new", <<>>, Ok)
    /\ it2 = raxStart
    /\ life = RustOwned
    /\ dropped = FALSE

NextCross ==
    \/ \E p \in Paths : Search(p)
    \/ \E p \in Paths : NextPrefix(p)
    \/ \E p \in Paths : LongestPrefix(p)
    \/ \E p \in Paths : FindAllPrefixes(p)

SpecCross == InitCross /\ [][NextCross]_vars

\* ------------- two trees and an iterator, each dropped when the caller likes
\* two RadixTree::new, inserts into both, then create_iter on one of them
InitLife ==
    /\ stored \in {IndexMap(ks) : ks \in KeySets(MaxOtherKeys)}
    /\ tree = Build(EmptyRoot, stored)
    /\ tree2 \in {Build(EmptyRoot, OtherIndexMap(ks)) : ks \in KeySets(MaxOtherKeys)}
    /\ rt \in {"A", "B"}
    /\ it = raxStart
    /\ stale = FALSE
    /\ last = Call("new", <<>>, Ok)
    /\ it2 = raxStart
    /\ life = RustOwned
    /\ dropped = FALSE

\* the rax the iterator is bound to has been handed to raxFree
TreeFreed == rt = "A" /\ life.frees > 0

\* the results a read of freed memory may produce
Garbage == {None} \cup {Some(v) : v \in CValues}

\* A method of the first tree: it can be called until the tree is dropped,
\* with the iterator until the iterator is dropped.
Callable == ~life.null /\ ~dropped

\* second.search(&iter, p): the seek walks the rax behind the iterator, and
\* reads freed nodes when that rax has been freed
Search2(p) ==
    /\ ~dropped
    /\ IF TreeFreed
       THEN it' = Dangling /\ last' = Call("search", p, Flag(TRUE))
       ELSE LET r == search(tree2, TreeOf(rt), it, p) IN
            it' = r.it /\ last' = Call("search", p, Flag(r.res))
    /\ UNCHANGED <<tree, stale, stored>>
    /\ UNCHANGED others

\* second.next_prefix(&iter, p)
NextPrefix2(p) ==
    /\ ~dropped
    /\ IF TreeFreed
       THEN it' = Dangling
            /\ \E res \in Garbage : last' = Call("next_prefix", p, res)
       ELSE LET r == next_prefix(TreeOf(rt), it, p) IN
            it' = r.it /\ last' = Call("next_prefix", p, r.res)
    /\ UNCHANGED <<tree, stale, stored>>
    /\ UNCHANGED others

\* second.longest_prefix(&iter, p)
LongestPrefix2(p) ==
    /\ ~dropped
    /\ IF TreeFreed
       THEN it' = Dangling
            /\ \E res \in Garbage : last' = Call("longest_prefix", p, res)
       ELSE LET r == longest_prefix(tree2, TreeOf(rt), it, p) IN
            it' = r.it /\ last' = Call("longest_prefix", p, r.res)
    /\ UNCHANGED <<tree, stale, stored>>
    /\ UNCHANGED others

\* second.find_all_prefixes(&iter, p)
FindAllPrefixes2(p) ==
    /\ ~dropped
    /\ IF TreeFreed
       THEN it' = Dangling
            /\ \E res \in Garbage : last' = Call("find_all_prefixes", p, res)
       ELSE LET r == find_all_prefixes(tree2, TreeOf(rt), it, p) IN
            it' = r.it /\ last' = Call("find_all_prefixes", p, r.res)
    /\ UNCHANGED <<tree, stale, stored>>
    /\ UNCHANGED others

\* Drop for RadixIterator: tree_stop_raw(self.iter), libc::free, then
\* self.iter = null
DropIter ==
    /\ ~dropped
    /\ it' = tree_stop_raw(Ptr(it)).it
    /\ dropped' = TRUE
    /\ last' = Call("drop_iter", <<>>, Ok)
    /\ UNCHANGED <<tree, stale, stored, it2, tree2, rt, life>>

\* first.search(&iter, p) and the other queries, while first can be named
Search1(p) == Callable /\ Search(p)
NextPrefix1(p) == Callable /\ NextPrefix(p)
LongestPrefix1(p) == Callable /\ LongestPrefix(p)
FindAllPrefixes1(p) == Callable /\ FindAllPrefixes(p)

\* drop(first): a value is dropped once
DropTree1 == ~life.null /\ DropTree

NextLife ==
    \/ \E p \in Paths : Search1(p)
    \/ \E p \in Paths : NextPrefix1(p)
    \/ \E p \in Paths : LongestPrefix1(p)
    \/ \E p \in Paths : FindAllPrefixes1(p)
    \/ \E p \in Paths : Search2(p)
    \/ \E p \in Paths : NextPrefix2(p)
    \/ \E p \in Paths : LongestPrefix2(p)
    \/ \E p \in Paths : FindAllPrefixes2(p)
    \/ DropTree1
    \/ DropIter

SpecLife == InitLife /\ [][NextLife]_vars

\* ------------------------------------------------- what the calls mean
\* byte-wise lexicographic order, a proper prefix before its extensions
LexLE(a, b) ==
    LET j == CommonLen(a, b)
    IN IF j = Len(a) THEN TRUE
       ELSE IF j = Len(b) THEN FALSE
       ELSE a[j + 1] < b[j + 1]

StoredPrefixes(p) == {k \in DOMAIN stored : IsPrefix(k, p)}

LongestStoredPrefix(p) ==
    CHOOSE k \in StoredPrefixes(p) : \A j \in StoredPrefixes(p) : Len(j) <= Len(k)

\* the indices of the stored prefixes of p of length <= n, longest first
RECURSIVE PrefixValues(_, _)
PrefixValues(p, n) ==
    IF n < 0 THEN <<>>
    ELSE (IF Take(p, n) \in DOMAIN stored THEN <<stored[Take(p, n)]>> ELSE <<>>)
         \o PrefixValues(p, n - 1)

StoredValue(k) == IF k \in DOMAIN stored THEN Some(stored[k]) ELSE None

\* number of key nodes of a trie
RECURSIVE NumKeys(_)
RECURSIVE NumKeysSeq(_)
NumKeysSeq(cs) ==
    IF cs = <<>> THEN 0 ELSE NumKeys(Head(cs)) + NumKeysSeq(Tail(cs))
NumKeys(n) == (IF n.iskey THEN 1 ELSE 0) + NumKeysSeq(n.children)

\* path compression below n: every node under n is a key or has two children
RECURSIVE CompressedBelow(_)
CompressedBelow(n) ==
    \A i \in 1..Len(n.children) :
        LET c == n.children[i]
        IN (c.iskey \/ Len(c.children) >= 2) /\ CompressedBelow(c)

IsErr(res) == res # Ok /\ res[1] < 0

\* ---------------------------------------------------------------- claims

\* C1: find_exact(k) returns the index most recently inserted under k, and
\* None for a key that is not stored.
C1_FindExactReturnsStored ==
    last.op = "find_exact" => last.res = StoredValue(last.key)

\* C2: longest_prefix(iter, path) returns the index of the longest stored key
\* that is a prefix of path, and None exactly when no stored key is one.
C2_LongestPrefixIsLongest ==
    last.op = "longest_prefix" =>
        last.res = IF StoredPrefixes(last.key) = {} THEN None
                   ELSE Some(stored[LongestStoredPrefix(last.key)])

\* C3: find_all_prefixes(iter, path) returns the index of every stored prefix
\* of path and nothing else, longest prefix first.
C3_AllPrefixesLongestFirst ==
    last.op = "find_all_prefixes" =>
        last.res = PrefixValues(last.key, Len(last.key))

\* C4: whatever index v insert accepted for k, find_exact(k) afterwards finds
\* v and the prefix walk over k reports v: no index reads as "no value".
C4_NoValueNeverCollides ==
    (last.op = "insert" /\ last.res = Ok) =>
        /\ find_exact(tree, last.key) = Some(stored[last.key])
        /\ longest_prefix(tree, TreeOf(rt), it, last.key).res = Some(stored[last.key])

\* C5: a successful remove(k) makes find_exact(k) absent and changes
\* find_exact of no other key.
C5_RemoveFrame ==
    [][(last'.op = "remove" /\ last'.res = Ok) =>
          /\ find_exact(tree', last'.key) = None
          /\ \A j \in Keys \ {last'.key} :
                 find_exact(tree', j) = find_exact(tree, j)]_vars

\* a key was removed while a longer key that extends it stays stored
C5_Witness ==
    /\ last.op = "remove" /\ last.res = Ok
    /\ \E j \in DOMAIN stored : IsPrefix(last.key, j)
    /\ \A j \in DOMAIN stored : find_exact(tree, j) = Some(stored[j])

\* C6: after every insert and remove no node other than the root is a
\* non-key node with fewer than two children.
C6_PathCompression == CompressedBelow(tree)

\* a leaf key was removed from under a branching node, which was merged
\* with the one child it had left
C6_Witness ==
    /\ last.op = "remove" /\ last.res = Ok
    /\ \E j \in DOMAIN stored :
          /\ CommonLen(j, last.key) > 0
          /\ ~IsPrefix(j, last.key) /\ ~IsPrefix(last.key, j)
          /\ Len(tree.children) = 1 /\ tree.children[1].label = j

C8_SearchReportsCandidate ==
    last.op = "search" =>
        /\ last.res = Flag(\E k \in DOMAIN stored : LexLE(k, last.key))
        /\ (last.res = Flag(FALSE) => ~Positioned)

C10_ReinsertReplaces ==
    [][(last'.op = "insert" /\ last'.key \in DOMAIN stored) =>
          /\ NumKeys(tree') = NumKeys(tree)
          /\ find_exact(tree', last'.key) = Some(stored'[last'.key])
          /\ \A j \in Keys \ {last'.key} :
                 find_exact(tree', j) = find_exact(tree, j)]_vars

\* the greatest stored key that is <= p
GreatestStoredLE(p) ==
    CHOOSE k \in DOMAIN stored :
        LexLE(k, p) /\ \A j \in DOMAIN stored : LexLE(j, p) => LexLE(j, k)

\* C14: when the seek of search(iter, path) succeeds, the cursor is on the
\* greatest stored key <= path, and the iterator's key and data are that
\* key and its value.
C14_SeekLandsOnGreatest ==
    (last.op = "search" /\ Positioned) =>
        /\ \E k \in DOMAIN stored : LexLE(k, last.key)
        /\ it.key = GreatestStoredLE(last.key)
        /\ it.data = IdxToPtr(stored[it.key])

\* the seek passed over a smaller stored key and landed on a key that is
\* below the path without being a prefix of it
C14_Witness ==
    /\ last.op = "search" /\ Positioned
    /\ ~IsPrefix(it.key, last.key)
    /\ \E j \in DOMAIN stored : j # it.key /\ LexLE(j, it.key)

C17_ExhaustionStable ==
    [][(last.op = "next_prefix" /\ last.res = None /\ last'.op = "next_prefix")
          => last'.res = None]_vars

\* every node below n has a non-empty label, and no two children of a node
\* have labels that start with the same byte
RECURSIVE LabelsDistinct(_)
LabelsDistinct(n) ==
    /\ \A i \in 1..Len(n.children) : n.children[i].label # <<>>
    /\ \A i, j \in 1..Len(n.children) :
          i # j => n.children[i].label[1] # n.children[j].label[1]
    /\ \A i \in 1..Len(n.children) : LabelsDistinct(n.children[i])

C12_DestroyTwiceSafe == life.frees <= 1

NullTreeOps == {"c_insert_null_tree", "c_remove_null_tree"}
NullBufOps == {"c_insert_null_buf", "c_remove_null_buf"}
NullFindOps == {"c_find_null_tree", "c_find_null_buf"}
NullSearchOps == {"c_search_null_it", "c_search_null_buf"}
NullUpOps == {"c_up_null_it", "c_up_null_buf"}

\* C19: a call with a null argument returns its error value (-1 for a null
\* tree, -2 for a null buffer of insert and remove; null from find and
\* search; -1 from up), changes no trie and moves no cursor.
C19_NullArguments ==
    [][/\ last'.op \in NullTreeOps => last'.res = <<-1>>
       /\ last'.op \in NullBufOps => last'.res = <<-2>>
       /\ last'.op \in NullFindOps => last'.res = <<NULL>>
       /\ last'.op \in NullSearchOps => last'.res = Flag(FALSE)
       /\ last'.op \in NullUpOps => last'.res = <<-1>>
       /\ last'.op \in NullTreeOps \cup NullBufOps \cup NullFindOps
                       \cup NullSearchOps \cup NullUpOps
             => /\ tree' = tree /\ tree2' = tree2 /\ stored' = stored
                /\ it' = it /\ it2' = it2]_vars

\* up was called with a null buffer on an iterator that stands on a key
\* below the root, and the iterator still stands there
C19_Witness ==
    /\ last.op = "c_up_null_buf" /\ last.res = <<-1>>
    /\ Positioned /\ ~stale /\ it.key # <<>>
    /\ NumKeys(tree) = 2

LexLT(a, b) == a # b /\ LexLE(a, b)

StoredAfter(k) == {j \in DOMAIN stored : LexLT(k, j)}
StoredBefore(k) == {j \in DOMAIN stored : LexLT(j, k)}
Least(ks) == CHOOSE k \in ks : \A j \in ks : LexLE(k, j)
Greatest(ks) == CHOOSE k \in ks : \A j \in ks : LexLE(j, k)

\* C11: from a positioned iterator, next moves to the least stored key
\* greater than the current one and reports it, previous to the greatest
\* smaller one, and each reports exhaustion exactly when there is no such
\* key.
C11_NextPrevVisitAll ==
    [][/\ (Positioned /\ last'.op = "c_next") =>
             IF StoredAfter(it.key) = {}
             THEN last'.res = <<-1>> /\ "EOF" \in it'.flags
             ELSE /\ it'.key = Least(StoredAfter(it.key))
                  /\ last'.res = <<stored[Least(StoredAfter(it.key))]>>
       /\ (Positioned /\ last'.op = "c_prev") =>
             IF StoredBefore(it.key) = {}
             THEN last'.res = <<-1>> /\ "EOF" \in it'.flags
             ELSE /\ it'.key = Greatest(StoredBefore(it.key))
                  /\ last'.res = <<stored[Greatest(StoredBefore(it.key))]>>]_vars

\* C15: radix_tree_next returns -1 only when no stored key after the
\* current one is a prefix of buf.
C15_NextSkipsNonPrefixes ==
    [][(Positioned /\ last'.op = "c_next" /\ last'.res = <<-1>>) =>
          ~\E k \in StoredAfter(it.key) : IsPrefix(k, last'.key)]_vars

C20_ResultsOfCalledTree ==
    /\ last.op = "search" =>
          IF \E k \in DOMAIN stored : LexLE(k, last.key)
          THEN /\ Positioned
               /\ it.key = GreatestStoredLE(last.key)
               /\ it.data = IdxToPtr(stored[it.key])
          ELSE ~Positioned
    /\ last.op = "longest_prefix" =>
          last.res = IF StoredPrefixes(last.key) = {} THEN None
                     ELSE Some(stored[LongestStoredPrefix(last.key)])
    /\ last.op = "find_all_prefixes" =>
          last.res = PrefixValues(last.key, Len(last.key))

\* C22: the frames of the iterator never refer to a node that an insert or
\* a remove has freed, merged or moved: no mutation runs while the iterator
\* is positioned, so next_prefix never reads such a frame.
C22_FramesInTrie == ~stale

IterOps ==
    {"search", "next_prefix", "longest_prefix", "find_all_prefixes", "drop_iter"}

\* C21: no search, next_prefix, longest_prefix, find_all_prefixes or drop
\* of the iterator runs after the tree the iterator was created from has
\* been destroyed.
C21_TreeOutlivesIterator == last.op \in IterOps => ~TreeFreed

====
